---- MODULE Spec2Model ----
(***************************************************************************)
(* Model of metasyn/provider.py: the DistributionProviderList engine       *)
(* (candidate gathering, automatic best-fit selection, name/version        *)
(* resolution and dict-based reconstruction).                              *)
(*                                                                         *)
(* A distribution class (descriptor) is a record                           *)
(*   [id, name, var_type, privacy, version]                                *)
(* where var_type is [kind, ts] (kind "str": one string, kind "list": a    *)
(* list of strings, kind "none": Python None as a query value) and version *)
(* is the pair <<major, minor>> of the canonical "major.minor" string.     *)
(* A privacy object is modelled by its name.                               *)
(***************************************************************************)
EXTENDS Integers, Sequences, FiniteSets, TLC

VARIABLES
    dist_packages,  \* self.dist_packages: the ordered provider list
    na_meta,        \* metadata of the imported NADistribution class
    warn_filter,    \* the process-wide warnings filter
    op,             \* the method called last
    args,           \* its arguments
    ret,            \* what it returned or raised
    warns           \* the warnings it emitted, in order

vars == <<dist_packages, na_meta, warn_filter, op, args, ret, warns>>

-----------------------------------------------------------------------------
(* Bounds of the model *)

MaxMajor == 2
MaxMinor == 2
BigMinor == 800
MaxScore == 1

(* Program constants *)
LegacyMajorWeight == 100
MajorMatchScore == 1000000
CompatibleThreshold == 500000

None == "None"
NoVersion == <<>>

Privacies == {"none", "disclosure"}
VarTypeNames == {"discrete", "string"}
Majors == 1..MaxMajor
Minors == (0..MaxMinor) \cup {BigMinor}
Versions == Majors \X Minors
Scores == 0..MaxScore
DistNames == {"uniform", "regex", "na", "missing"}
Uniques == {None, "True", "False"}

StrVT(s) == [kind |-> "str", ts |-> {s}]
ListVT(S) == [kind |-> "list", ts |-> S]
NoneVT == [kind |-> "none", ts |-> {}]

Dist(id, name, vt, privacy, version) ==
    [id |-> id, name |-> name, var_type |-> vt, privacy |-> privacy, version |-> version]

-----------------------------------------------------------------------------
(* External collaborators *)

\* metasyn.distribution.na.NADistribution: matches the name "na"; its privacy
\* tag and uniqueness flag are whatever the imported class carries (na_meta).
NADistribution ==
    Dist("NADistribution", "na", ListVT(VarTypeNames), na_meta.privacy, <<1, 0>>)

\* BaseDistribution.matches_name
matches_name(dist_class, dist_name) == dist_class.name = dist_name

\* the name of BasicPrivacy(), the default privacy of find_distribution
BasicPrivacy == "none"

\* int(version.split(".")[0]) and int(version.split(".")[1])
major_of(version) == version[1]
minor_of(version) == version[2]

-----------------------------------------------------------------------------
(* The providers an engine can be built from *)

Uniform10 == Dist("DiscreteUniformDistribution", "uniform", StrVT("discrete"), "none", <<1, 0>>)
Poisson10 == Dist("PoissonDistribution", "poisson", StrVT("discrete"), "none", <<1, 0>>)
Regex10 == Dist("RegexDistribution", "regex", StrVT("string"), "none", <<1, 0>>)
DisclosureUniform10 == Dist("disclosure.UniformDistribution", "uniform", StrVT("discrete"), "disclosure", <<1, 0>>)
LegacyRegex12 == Dist("legacy.RegexDistribution12", "regex", StrVT("string"), "none", <<1, 2>>)
LegacyRegex10 == Dist("legacy.RegexDistribution10", "regex", StrVT("string"), "none", <<1, 0>>)

PluginUniform10 == Dist("plugin.UniformDistribution", "uniform", ListVT({"discrete", "string"}), "none", <<1, 0>>)
PluginNA == Dist("plugin.NADistribution", "na", StrVT("discrete"), "none", <<1, 0>>)
PluginLegacyUniform10 == Dist("plugin.legacy.UniformDistribution", "uniform", StrVT("discrete"), "none", <<1, 0>>)
PluginRegex11 == Dist("plugin.RegexDistribution", "regex", StrVT("string"), "none", <<1, 1>>)

DisclosureRegex20 == Dist("disclosure.RegexDistribution", "regex", StrVT("string"), "disclosure", <<2, 0>>)
OldUniform12 == Dist("old.Uniform12", "uniform", StrVT("discrete"), "disclosure", <<1, 2>>)
OldUniform20 == Dist("old.Uniform20", "uniform", StrVT("discrete"), "disclosure", <<2, 0>>)
OldUniformBig == Dist("old.UniformBig", "uniform", StrVT("discrete"), "disclosure", <<1, BigMinor>>)

BuiltinDistributionProvider ==
    [name |-> "builtin",
     distributions |-> <<Uniform10, Poisson10, Regex10, DisclosureUniform10>>,
     legacy_distributions |-> <<LegacyRegex12, LegacyRegex10>>]

PluginProvider ==
    [name |-> "plugin",
     distributions |-> <<PluginUniform10, PluginNA, PluginRegex11>>,
     legacy_distributions |-> <<PluginLegacyUniform10>>]

DisclosureProvider ==
    [name |-> "disclosure",
     distributions |-> <<DisclosureRegex20>>,
     legacy_distributions |-> <<OldUniform12, OldUniform20, OldUniformBig>>]

Providers == {BuiltinDistributionProvider, PluginProvider, DisclosureProvider}

\* DistributionProviderList.__init__: the caller's providers, in the caller's order
ProviderLists ==
    {<<p>> : p \in Providers} \cup {<<p, q>> : p \in Providers, q \in Providers}

-----------------------------------------------------------------------------
(* numpy *)

\* a minimum search that keeps the last index of the minimum
argmin_last(values) ==
    CHOOSE i \in 1..Len(values) :
        /\ \A j \in 1..Len(values) : values[i] <= values[j]
        /\ \A j \in (i + 1)..Len(values) : values[j] > values[i]

\* np.argmin: the first index of the minimum
argmin(values) ==
    CHOOSE i \in 1..Len(values) :
        /\ \A j \in 1..Len(values) : values[i] <= values[j]
        /\ \A j \in 1..(i - 1) : values[j] > values[i]

\* np.argmax: the first index of the maximum
argmax(values) ==
    CHOOSE i \in 1..Len(values) :
        /\ \A j \in 1..Len(values) : values[i] >= values[j]
        /\ \A j \in 1..(i - 1) : values[j] < values[i]

\* list.index: the first index holding x
index_of(values, x) ==
    CHOOSE i \in 1..Len(values) :
        /\ values[i] = x
        /\ \A j \in 1..(i - 1) : values[j] # x

MapSeq(s, F(_)) == [i \in 1..Len(s) |-> F(s[i])]

-----------------------------------------------------------------------------
(* BaseDistributionProvider *)

str_chk(dist_class, var_type) ==
    dist_class.var_type.kind = "str" /\ var_type = dist_class.var_type

lst_chk(dist_class, var_type) ==
    /\ dist_class.var_type.kind # "str"
    /\ var_type.kind = "str"
    /\ var_type.ts \subseteq dist_class.var_type.ts

get_dist_list(provider, var_type, use_legacy) ==
    LET distributions == IF use_legacy THEN provider.legacy_distributions
                         ELSE provider.distributions
        keep(dist_class) == str_chk(dist_class, var_type) \/ lst_chk(dist_class, var_type)
    IN  IF var_type.kind = "none" THEN distributions
        ELSE SelectSeq(distributions, keep)

-----------------------------------------------------------------------------
(* DistributionProviderList *)

RECURSIVE extend_all_reversed(_, _, _)
\* the providers gathered last to first
extend_all_reversed(packages, var_type, use_legacy) ==
    IF packages = <<>> THEN <<>>
    ELSE extend_all_reversed(Tail(packages), var_type, use_legacy)
             \o get_dist_list(Head(packages), var_type, use_legacy)

RECURSIVE extend_all(_, _, _)
\* the loop of get_distributions: dist_list.extend(...) per provider, in order
extend_all(packages, var_type, use_legacy) ==
    IF packages = <<>> THEN <<>>
    ELSE get_dist_list(Head(packages), var_type, use_legacy)
             \o extend_all(Tail(packages), var_type, use_legacy)

\* a filter that lets every privacy level through
privacy_matches_any(dist, privacy) == TRUE

privacy_matches(dist, privacy) == dist.privacy = privacy

get_distributions(packages, privacy, var_type, use_legacy) ==
    LET dist_list == extend_all(packages, var_type, use_legacy)
        keep(dist) == privacy_matches(dist, privacy)
    IN  IF privacy = None THEN dist_list
        ELSE SelectSeq(dist_list, keep)

Returned(value, warnings, filter) == [ret |-> value, warns |-> warnings, filter |-> filter]
Raised(err, warnings, filter) ==
    [ret |-> [kind |-> "error", err |-> err], warns |-> warnings, filter |-> filter]
Class(dist_class) == [kind |-> "class", cls |-> dist_class]

\* NADistribution() / NADistribution.default_distribution()
NAInstance ==
    [kind |-> "instance", cls |-> NADistribution, is_unique |-> na_meta.is_unique,
     ic |-> 0, idx |-> 0]

not_null(x) == x # "null"
drop_nulls(series) == SelectSeq(series, not_null)

\* the length taken without dropping the nulls
has_no_values_raw(series) == Len(series) = 0

has_no_values(series) == Len(drop_nulls(series)) = 0

\* the caller's preference dropped: always not unique
desired_unique_ignored(unique) == FALSE

\* unique after "if unique is None: unique = False"
desired_unique(unique) == IF unique = None THEN FALSE ELSE unique = "True"

seems_unique(best, unique) == best.is_unique /\ unique = None

\* fitted[i] is what d.fit(series, **privacy.fit_kwargs) and information_criterion
\* give for the i-th class of dist_list
_find_best_fit(packages, series, var_type, unique, privacy, fitted, filter) ==
    IF has_no_values(series) THEN Returned(NAInstance, <<>>, filter)
    ELSE
    LET dist_list == get_distributions(packages, privacy, var_type, FALSE) IN
    IF Len(dist_list) = 0 THEN Raised("no_distributions_for_var_type", <<>>, filter)
    ELSE
    LET dist_instances ==
            [i \in 1..Len(dist_list) |->
                [kind |-> "instance", cls |-> dist_list[i],
                 is_unique |-> fitted[i].is_unique, ic |-> fitted[i].ic, idx |-> i]]
        dist_aic == [i \in 1..Len(dist_list) |-> dist_instances[i].ic]
        i_best_dist == argmin(dist_aic)
        warned == IF seems_unique(dist_instances[i_best_dist], unique)
                  THEN <<"seems_unique">> ELSE <<>>
        want == desired_unique(unique)
        keep(d) == d.is_unique = want
        kept == SelectSeq(dist_instances, keep)
        kept_aic == [i \in 1..Len(kept) |-> kept[i].ic]
    IN  IF Len(kept) = 0 THEN Raised("no_distributions_for_unique", warned, "always")
        ELSE Returned(kept[argmin(kept_aic)], warned, "always")

\* the name reported as deprecated whatever the current lists hold
name_is_deprecated_always(versions_found) == TRUE

name_is_deprecated(versions_found) == Len(versions_found) = 0

legacy_score(dist) == major_of(dist.version) * LegacyMajorWeight + minor_of(dist.version)

\* a score that credits every candidate with the requested major version
version_score_any_major(ver, major_version, minor_version) ==
    MajorMatchScore
        - (minor_of(ver) - minor_version) * (minor_of(ver) - minor_version)

version_score(ver, major_version, minor_version) ==
    (IF major_of(ver) = major_version THEN 1 ELSE 0) * MajorMatchScore
        - (minor_of(ver) - minor_version) * (minor_of(ver) - minor_version)

current_candidates(packages, privacy, var_type) ==
    get_distributions(packages, privacy, var_type, FALSE) \o <<NADistribution>>

find_distribution(packages, dist_name, privacy, var_type, version, filter) ==
    IF matches_name(NADistribution, dist_name) THEN Returned(Class(NADistribution), <<>>, filter)
    ELSE
    LET matches(dist_class) == matches_name(dist_class, dist_name)
        exact(dist_class) == version = NoVersion \/ version = dist_class.version
        named == SelectSeq(current_candidates(packages, privacy, var_type), matches)
        hits == SelectSeq(named, exact)
    IN
    IF Len(hits) > 0 THEN Returned(Class(hits[1]), <<>>, filter)
    ELSE
    LET versions_found == named
        legacy_distribs ==
            SelectSeq(get_distributions(packages, privacy, var_type, TRUE), matches)
    IN
    IF Len(legacy_distribs \o versions_found) = 0
    THEN Raised("cannot_find_distribution", <<>>, "always")
    ELSE
    LET deprecated == IF name_is_deprecated(versions_found)
                      THEN <<"deprecated_name">> ELSE <<>>
        version_of(dist) == dist.version
        legacy_versions == MapSeq(legacy_distribs, version_of)
    IN
    IF version # NoVersion /\ \E i \in 1..Len(legacy_versions) : legacy_versions[i] = version
    THEN Returned(Class(legacy_distribs[index_of(legacy_versions, version)]),
                  deprecated \o <<"deprecated_version">>, "always")
    ELSE IF version = NoVersion
    THEN Returned(Class(legacy_distribs[argmax(MapSeq(legacy_distribs, legacy_score))]),
                  deprecated, "always")
    ELSE
    LET major_version == major_of(version)
        minor_version == minor_of(version)
        all_dist == versions_found \o legacy_distribs
        score_of(dist) == version_score(dist.version, major_version, minor_version)
        score == MapSeq(all_dist, score_of)
        i_max == argmax(score)
    IN  IF score[i_max] < CompatibleThreshold
        THEN Raised("no_compatible_version", deprecated, "always")
        ELSE Returned(Class(all_dist[i_max]), deprecated \o <<"version_mismatch">>, "always")


\* dist is a name here; fitted[1] is what dist_class.fit gives
_fit_distribution(packages, series, dist, privacy, fitted, filter) ==
    LET found == find_distribution(packages, dist, privacy, NoneVT, NoVersion, filter) IN
    IF found.ret.kind = "error" THEN found
    ELSE IF found.ret.cls.id = NADistribution.id
    THEN Returned(NAInstance, found.warns, found.filter)
    ELSE Returned([kind |-> "instance", cls |-> found.ret.cls,
                   is_unique |-> fitted[1].is_unique, ic |-> fitted[1].ic, idx |-> 1],
                  found.warns, found.filter)

fit(packages, series, var_type, dist, privacy, unique, fit_kwargs, fitted, filter) ==
    IF dist # None
    THEN _fit_distribution(packages, series, dist, privacy, fitted, filter)
    ELSE IF fit_kwargs # {}
    THEN Raised("fit_kwargs_without_distribution", <<>>, filter)
    ELSE _find_best_fit(packages, series, var_type, unique, privacy, fitted, filter)

\* instance.to_dict(): the record a fitted instance serialises to
to_dict(d) ==
    [implements |-> d.cls.name, version |-> d.cls.version,
     parameters |-> [is_unique |-> d.is_unique, ic |-> d.ic]]

\* var_dict["distribution"].get("version", "1.0")
version_or_default(distribution) ==
    IF distribution.version = NoVersion THEN <<1, 0>> ELSE distribution.version

from_dict(packages, var_dict, filter) ==
    LET dist_name == var_dict.distribution.implements
        version == version_or_default(var_dict.distribution)
        var_type == var_dict.type
        found == find_distribution(packages, dist_name, BasicPrivacy, var_type, version, filter)
    IN  IF found.ret.kind = "error" THEN found
        ELSE Returned([kind |-> "instance", cls |-> found.ret.cls,
                       parameters |-> var_dict.distribution.parameters],
                      found.warns, found.filter)

-----------------------------------------------------------------------------
(* Inputs *)

Series == {<<>>, <<"null">>, <<"v">>, <<"null", "v">>}
VarTypes == {StrVT(t) : t \in VarTypeNames}
FitOutcomes == [ic : Scores, is_unique : BOOLEAN]
NoParameters == [is_unique |-> FALSE, ic |-> 0]

-----------------------------------------------------------------------------
(* The state machine: an engine, and one call at a time on it *)

Init ==
    /\ dist_packages \in ProviderLists
    /\ na_meta \in [privacy : Privacies, is_unique : BOOLEAN]
    /\ warn_filter = "default"
    /\ op = "init"
    /\ args = <<>>
    /\ ret = [kind |-> "none"]
    /\ warns = <<>>

Finish(name, arguments, outcome) ==
    /\ op' = name
    /\ args' = arguments
    /\ ret' = outcome.ret
    /\ warns' = outcome.warns
    /\ warn_filter' = outcome.filter
    /\ UNCHANGED <<dist_packages, na_meta>>

\* what fitting each eligible class to the series would give; nothing is fitted
\* when fit arguments come without a distribution
FittedFor(privacy, var_type, fit_kwargs) ==
    IF fit_kwargs # {} THEN {<<>>}
    ELSE [1..Len(get_distributions(dist_packages, privacy, var_type, FALSE)) -> FitOutcomes]

\* fit(series, var_type, privacy=..., unique=..., fit_kwargs=...), dist omitted
Fit ==
    /\ op = "init"
    /\ \E series \in Series, var_type \in VarTypes, privacy \in Privacies,
          unique \in Uniques, fit_kwargs \in {{}, {"x"}} :
         \E fitted \in FittedFor(privacy, var_type, fit_kwargs) :
           Finish("fit",
                  [series |-> series, var_type |-> var_type, dist |-> None,
                   privacy |-> privacy, unique |-> unique, fit_kwargs |-> fit_kwargs,
                   fitted |-> fitted],
                  fit(dist_packages, series, var_type, None, privacy, unique, fit_kwargs,
                      fitted, warn_filter))

\* fit(series, var_type, dist=<name>, privacy=..., fit_kwargs=...): var_type and
\* unique are not read on this path
FitDist ==
    /\ op = "init"
    /\ \E series \in Series, var_type \in VarTypes, dist \in DistNames,
          privacy \in Privacies, fit_kwargs \in {{}, {"x"}} :
         \E fitted \in [1..1 -> FitOutcomes] :
           Finish("fit",
                  [series |-> series, var_type |-> var_type, dist |-> dist,
                   privacy |-> privacy, unique |-> None, fit_kwargs |-> fit_kwargs,
                   fitted |-> fitted],
                  fit(dist_packages, series, var_type, dist, privacy, None, fit_kwargs,
                      fitted, warn_filter))

FindDistribution ==
    /\ op = "init"
    /\ \E dist_name \in DistNames, privacy \in Privacies,
          var_type \in VarTypes \cup {NoneVT}, version \in Versions \cup {NoVersion} :
           Finish("find_distribution",
                  [dist_name |-> dist_name, privacy |-> privacy, var_type |-> var_type,
                   version |-> version],
                  find_distribution(dist_packages, dist_name, privacy, var_type, version,
                                    warn_filter))

GetDistributions ==
    /\ op = "init"
    /\ \E privacy \in Privacies \cup {None}, var_type \in VarTypes \cup {NoneVT},
          use_legacy \in BOOLEAN :
           Finish("get_distributions",
                  [privacy |-> privacy, var_type |-> var_type, use_legacy |-> use_legacy],
                  Returned([kind |-> "list",
                            dists |-> get_distributions(dist_packages, privacy, var_type,
                                                        use_legacy)],
                           <<>>, warn_filter))

\* from_dict on a record written by hand
FromDict ==
    /\ op = "init"
    /\ \E dist_name \in DistNames, version \in Versions \cup {NoVersion},
          var_type \in VarTypes :
           LET var_dict == [type |-> var_type,
                            distribution |-> [implements |-> dist_name, version |-> version,
                                              parameters |-> NoParameters]]
           IN  Finish("from_dict", [var_dict |-> var_dict, d |-> <<>>],
                      from_dict(dist_packages, var_dict, warn_filter))

\* from_dict({"type": d.var_type, "distribution": d.to_dict()}) for the instance d
\* that fit has just returned
FromDictOfFitted ==
    /\ op = "fit"
    /\ ret.kind = "instance"
    /\ LET var_dict == [type |-> ret.cls.var_type, distribution |-> to_dict(ret)]
           outcome == from_dict(dist_packages, var_dict, warn_filter)
       IN  /\ op' = "from_dict"
           /\ args' = [var_dict |-> var_dict, d |-> <<ret>>]
           /\ ret' = outcome.ret
           /\ warns' = outcome.warns
           /\ warn_filter' = outcome.filter
    /\ UNCHANGED <<dist_packages, na_meta>>

\* the call is over: the caller has its result and the engine is ready for the next
Return ==
    /\ op # "init"
    /\ op' = "init"
    /\ args' = <<>>
    /\ ret' = [kind |-> "none"]
    /\ warns' = <<>>
    /\ UNCHANGED <<dist_packages, na_meta, warn_filter>>

Next ==
    \/ Fit
    \/ FitDist
    \/ FindDistribution
    \/ GetDistributions
    \/ FromDict
    \/ FromDictOfFitted
    \/ Return

Spec == Init /\ [][Next]_vars

-----------------------------------------------------------------------------
(* Vocabulary of the properties, stated on the provider lists themselves *)

\* the places <<p, i>> of the current (or legacy) lists, in provider-then-list order
Places(use_legacy) ==
    UNION {{<<p, i>> : i \in 1..Len(IF use_legacy
                                    THEN dist_packages[p].legacy_distributions
                                    ELSE dist_packages[p].distributions)} :
           p \in 1..Len(dist_packages)}

DescAt(pl, use_legacy) ==
    IF use_legacy THEN dist_packages[pl[1]].legacy_distributions[pl[2]]
    ELSE dist_packages[pl[1]].distributions[pl[2]]

Before(a, b) == a[1] < b[1] \/ (a[1] = b[1] /\ a[2] < b[2])

\* the class offers the variable type asked for (None asks for nothing)
Offers(dist_class, var_type) ==
    var_type.kind = "none"
        \/ (var_type.kind = "str" /\ var_type.ts \subseteq dist_class.var_type.ts)

EligiblePlaces(privacy, var_type, use_legacy) ==
    {pl \in Places(use_legacy) :
        /\ Offers(DescAt(pl, use_legacy), var_type)
        /\ DescAt(pl, use_legacy).privacy = privacy}

\* the place's rank among the eligible places: its index in the candidate list
Rank(pl, places) == Cardinality({q \in places : Before(q, pl)}) + 1

AllNull(series) == \A k \in 1..Len(series) : series[k] = "null"

AutoFit == op = "fit" /\ args.dist = None /\ args.fit_kwargs = {}

FitPlaces == EligiblePlaces(args.privacy, args.var_type, FALSE)

ReturnedNA == ret.kind = "instance" /\ ret.cls.id = "NADistribution"

-----------------------------------------------------------------------------
(* C1: for a series with zero non-missing values, fit with dist omitted and no
   fit_kwargs returns the missing-data model's default instance, whatever
   var_type, unique and privacy are and whatever the providers offer; it never
   raises the no-candidate or the no-matching-uniqueness error. *)
C1_EmptySeriesGivesNA ==
    (AutoFit /\ AllNull(args.series)) => (ReturnedNA /\ warns = <<>>)

\* reached: an all-null series, unique = True, and no candidate of that var_type
\* under that privacy
C1_Witness ==
    /\ AutoFit
    /\ args.series = <<"null">>
    /\ args.unique = "True"
    /\ FitPlaces = {}
    /\ ReturnedNA

(* C2 as stated: every instance automatic selection returns, for every series,
   is of a class whose privacy tag is the name of the privacy passed in. *)
C2_Original ==
    (AutoFit /\ ret.kind = "instance") => ret.cls.privacy = args.privacy

(* C2 amended: for a series with at least one non-missing value, every instance
   automatic selection returns is of a class whose privacy tag is the name of
   the privacy passed in. *)
C2_PrivacyRespected ==
    (AutoFit /\ ~AllNull(args.series) /\ ret.kind = "instance")
        => ret.cls.privacy = args.privacy

\* reached: the engine offers classes of that var_type under another privacy
\* too, and a fitted instance came back
C2_Witness ==
    /\ AutoFit
    /\ ~AllNull(args.series)
    /\ ret.kind = "instance"
    /\ \E pl \in Places(FALSE) :
          /\ Offers(DescAt(pl, FALSE), args.var_type)
          /\ DescAt(pl, FALSE).privacy # args.privacy

\* some eligible class fits the series with the uniqueness asked for
SomeFitIs(want) == \E k \in 1..Len(args.fitted) : args.fitted[k].is_unique = want

(* C3 as stated: with unique set and some eligible class fitting with that
   uniqueness, the returned instance has is_unique = unique, for every series,
   one with zero non-missing values included. *)
C3_Original ==
    \A want \in BOOLEAN :
        (AutoFit /\ args.unique = (IF want THEN "True" ELSE "False") /\ SomeFitIs(want))
            => (ret.kind = "instance" /\ ret.is_unique = want)

(* C3 amended: with unique set, a series with at least one non-missing value
   and some eligible class fitting with that uniqueness, the returned instance
   has is_unique = unique. *)
C3_UniquenessRespected ==
    \A want \in BOOLEAN :
        (/\ AutoFit
         /\ ~AllNull(args.series)
         /\ args.unique = (IF want THEN "True" ELSE "False")
         /\ SomeFitIs(want))
            => (ret.kind = "instance" /\ ret.is_unique = want)

\* reached: unique = True, the best score belongs to a non-unique fit, and a
\* unique one is returned
C3_Witness ==
    /\ AutoFit
    /\ ~AllNull(args.series)
    /\ args.unique = "True"
    /\ \E k \in 1..Len(args.fitted) :
          /\ ~args.fitted[k].is_unique
          /\ \A j \in 1..Len(args.fitted) : args.fitted[k].ic < args.fitted[j].ic \/ j = k
    /\ ret.kind = "instance"
    /\ ret.is_unique

\* the eligible place whose class is the k-th candidate
PlaceOfRank(k) == CHOOSE pl \in FitPlaces : Rank(pl, FitPlaces) = k

\* among the fits ks, the lowest score, the first in candidate order among equals
BestOf(ks) ==
    CHOOSE k \in ks :
        \A j \in ks :
            \/ args.fitted[k].ic < args.fitted[j].ic
            \/ (args.fitted[k].ic = args.fitted[j].ic /\ k <= j)

FitsWith(want) == {k \in 1..Len(args.fitted) : args.fitted[k].is_unique = want}

(* C8: for a series with a non-missing value, automatic selection fits exactly
   the eligible candidates and returns the fit with the lowest information
   criterion among those whose is_unique is the desired uniqueness (unique if
   set, otherwise False), the first in provider-then-list order among equal
   scores; the uniqueness warning is emitted exactly when unique is unset and
   the overall lowest-score fit is unique. *)
C8_BestFitAmongMatching ==
    (AutoFit /\ ~AllNull(args.series)) =>
        LET want == args.unique = "True"
            all == 1..Len(args.fitted)
        IN  /\ Len(args.fitted) = Cardinality(FitPlaces)
            /\ FitsWith(want) # {} =>
                  /\ ret.kind = "instance"
                  /\ ret.idx = BestOf(FitsWith(want))
                  /\ ret.cls = DescAt(PlaceOfRank(ret.idx), FALSE)
                  /\ ret.ic = args.fitted[ret.idx].ic
                  /\ ret.is_unique = want
            /\ all # {} =>
                  warns = IF args.unique = None /\ args.fitted[BestOf(all)].is_unique
                          THEN <<"seems_unique">> ELSE <<>>

\* reached: unique unset, the overall best fit is unique, two non-unique fits
\* tie on the best remaining score, and the first of them is returned with the
\* warning
C8_Witness ==
    /\ AutoFit
    /\ ~AllNull(args.series)
    /\ args.unique = None
    /\ ret.kind = "instance"
    /\ warns = <<"seems_unique">>
    /\ \E j \in 1..Len(args.fitted) :
          /\ j > ret.idx
          /\ ~args.fitted[j].is_unique
          /\ args.fitted[j].ic = ret.ic
    /\ \E u \in 1..Len(args.fitted) :
          /\ args.fitted[u].is_unique
          /\ args.fitted[u].ic < ret.ic

-----------------------------------------------------------------------------
(* find_distribution *)

FindCall == op = "find_distribution"

\* the name is one the missing-data class answers to: no list is scanned
NAName == args.dist_name = "na"

FindPlaces(use_legacy) == EligiblePlaces(args.privacy, args.var_type, use_legacy)

\* the eligible places whose class answers to the name
NamedPlaces(use_legacy) ==
    {pl \in FindPlaces(use_legacy) : DescAt(pl, use_legacy).name = args.dist_name}

\* the current name-matches the scan returns on: version unset or equal
ExactCurrent ==
    {pl \in NamedPlaces(FALSE) :
        args.version = NoVersion \/ DescAt(pl, FALSE).version = args.version}

FirstPlace(places) == CHOOSE pl \in places : \A q \in places : q = pl \/ Before(pl, q)

SomeNamed == NamedPlaces(FALSE) # {} \/ NamedPlaces(TRUE) # {}

NoNamedHasMajor(major) ==
    /\ \A pl \in NamedPlaces(FALSE) : DescAt(pl, FALSE).version[1] # major
    /\ \A pl \in NamedPlaces(TRUE) : DescAt(pl, TRUE).version[1] # major

VersionError == ret = [kind |-> "error", err |-> "no_compatible_version"]

(* C4 as stated: with a version given, some candidate matching the name and
   every name-matching candidate of another major version, find_distribution
   fails with the version-incompatible error, for any name a candidate accepts. *)
C4_Original ==
    (/\ FindCall
     /\ args.version # NoVersion
     /\ SomeNamed
     /\ NoNamedHasMajor(args.version[1]))
        => VersionError

(* C4 amended: the same, for every name that is not one of the missing-data
   class's own names (for those the missing-data class is returned whatever
   the version). *)
C4_VersionIncompatible ==
    (/\ FindCall
     /\ ~NAName
     /\ args.version # NoVersion
     /\ SomeNamed
     /\ NoNamedHasMajor(args.version[1]))
        => VersionError

\* reached: a current and a legacy class match the name, all of major 1, and
\* version 2.x is asked for
C4_Witness ==
    /\ FindCall
    /\ ~NAName
    /\ args.version # NoVersion
    /\ NamedPlaces(FALSE) # {}
    /\ NamedPlaces(TRUE) # {}
    /\ NoNamedHasMajor(args.version[1])
    /\ VersionError

(* C5 as stated: whenever an eligible current class matches the name with
   version unset or equal to its own, find_distribution returns the first such
   class in provider-then-list order, with no warning. *)
C5_Original ==
    (FindCall /\ ExactCurrent # {})
        => (ret = Class(DescAt(FirstPlace(ExactCurrent), FALSE)) /\ warns = <<>>)

(* C5 amended: the same, for every name that is not one of the missing-data
   class's own names. *)
C5_FirstExactCurrent ==
    (FindCall /\ ~NAName /\ ExactCurrent # {})
        => (ret = Class(DescAt(FirstPlace(ExactCurrent), FALSE)) /\ warns = <<>>)

\* reached: two providers each offer a current class of that name and version,
\* a legacy class has the same name and version, and the first provider's wins
C5_Witness ==
    /\ FindCall
    /\ ~NAName
    /\ args.version # NoVersion
    /\ \E a \in ExactCurrent, b \in ExactCurrent :
          a[1] < b[1] /\ DescAt(a, FALSE).id # DescAt(b, FALSE).id
    /\ \E l \in NamedPlaces(TRUE) : DescAt(l, TRUE).version = args.version
    /\ ret.kind = "class"
    /\ ret.cls = DescAt(FirstPlace(ExactCurrent), FALSE)

IsDeprecation(w) == w \in {"deprecated_name", "deprecated_version"}

\* the scan of the current classes ended without a return and something matched
ScanFellThrough == FindCall /\ ~NAName /\ ExactCurrent = {} /\ SomeNamed

(* C9 as stated: whenever the scan ends without an exact current match and a
   current wrong-version or legacy class matches the name, a deprecation
   warning is emitted, also when a current class matches the name with another
   version. *)
C9_Original ==
    ScanFellThrough => \E k \in 1..Len(warns) : IsDeprecation(warns[k])

(* C9 amended: whenever the scan ends without an exact current match and
   something matches the name, the name-deprecation warning is emitted, first
   of all warnings, exactly when no current class matches the name at all; when
   a current class matches the name with another version it is not emitted. *)
C9_DeprecationWarning ==
    ScanFellThrough =>
        /\ NamedPlaces(FALSE) = {} => (warns # <<>> /\ warns[1] = "deprecated_name")
        /\ NamedPlaces(FALSE) # {} => \A k \in 1..Len(warns) : warns[k] # "deprecated_name"

\* reached: only legacy classes match the name, the warning comes first and a
\* class is returned
C9_Witness ==
    /\ ScanFellThrough
    /\ NamedPlaces(FALSE) = {}
    /\ Len(warns) = 2
    /\ warns[1] = "deprecated_name"
    /\ ret.kind = "class"

Later(v, w) == v[1] > w[1] \/ (v[1] = w[1] /\ v[2] > w[2])

\* the legacy name-match of the greatest (major, minor), first in order among equals
LatestLegacy ==
    CHOOSE pl \in NamedPlaces(TRUE) :
        \A q \in NamedPlaces(TRUE) :
            \/ Later(DescAt(pl, TRUE).version, DescAt(q, TRUE).version)
            \/ (DescAt(pl, TRUE).version = DescAt(q, TRUE).version
                    /\ (q = pl \/ Before(pl, q)))

(* C10: with version unset, no current class matching the name and a legacy
   class matching it, the latest legacy class is returned: the legacy
   name-match whose (major, minor) is greatest in lexicographic order, the
   first in list order among equals, for all major and minor versions. *)
C10_LatestLegacyWins ==
    (/\ FindCall
     /\ ~NAName
     /\ args.version = NoVersion
     /\ NamedPlaces(FALSE) = {}
     /\ NamedPlaces(TRUE) # {})
        => ret = Class(DescAt(LatestLegacy, TRUE))

\* the name-matching candidates of the scoring step: <<use_legacy, place>>
Scored == {<<FALSE, pl>> : pl \in NamedPlaces(FALSE)} \cup {<<TRUE, pl>> : pl \in NamedPlaces(TRUE)}

ScoredBefore(a, b) ==
    \/ (~a[1] /\ b[1])
    \/ (a[1] = b[1] /\ Before(a[2], b[2]))

Distance(c) ==
    LET m == DescAt(c[2], c[1]).version[2] - args.version[2]
    IN  IF m < 0 THEN -m ELSE m

SameMajor == {c \in Scored : DescAt(c[2], c[1]).version[1] = args.version[1]}

\* the same-major name-match closest in minor version: current before legacy,
\* then list order, among equals
Closest ==
    CHOOSE c \in SameMajor :
        \A e \in SameMajor :
            \/ Distance(c) < Distance(e)
            \/ (Distance(c) = Distance(e) /\ (e = c \/ ScoredBefore(c, e)))

(* C7: with a version given that no name-matching class has exactly, the call
   fails with 'no compatible version' if and only if no name-matching class
   shares the requested major version; otherwise it warns of the version
   mismatch and returns the same-major name-match closest in minor version
   (current before legacy, then list order, among equals), for all minor
   versions. *)
C7_ClosestMinorOrError ==
    (/\ FindCall
     /\ ~NAName
     /\ args.version # NoVersion
     /\ Scored # {}
     /\ \A c \in Scored : DescAt(c[2], c[1]).version # args.version)
        => /\ VersionError <=> SameMajor = {}
           /\ SameMajor # {} =>
                 /\ ret = Class(DescAt(Closest[2], Closest[1]))
                 /\ \E k \in 1..Len(warns) : warns[k] = "version_mismatch"

(* C6: for every fitted instance d that fit returns, from_dict of
   {"type": d.var_type, "distribution": d.to_dict()} on the same engine
   succeeds and gives an instance of d's own class with d's parameters. *)
C6_RoundTrip ==
    (op = "from_dict" /\ args.d # <<>>) =>
        /\ ret.kind = "instance"
        /\ ret.cls = args.d[1].cls
        /\ ret.parameters = [is_unique |-> args.d[1].is_unique, ic |-> args.d[1].ic]

====
